---- MODULE Spec2Model ----
(***************************************************************************)
(* PortailEE scraper: the traversal of scraper/spiders/pee.py (listing ->  *)
(* project page -> attachment download) and the item pipelines of          *)
(* scraper/pipelines.py, run by the single-threaded crawl engine.          *)
(***************************************************************************)
EXTENDS Integers, Sequences, FiniteSets, TLC

(* ------------------------------ bounds --------------------------------- *)
NumTargets == 2       \* targets crawled (the first entries of TARGETS)
MaxPages == 2         \* listing pages a target can have
MaxUploadLimit == 2   \* largest upload_limit tried
TickStep == 60        \* seconds the clock advances in one step
MaxElapsed == 120     \* the clock stops advancing here

(* ------------------------- program constants --------------------------- *)
RESULTS_LENGTH == 100
from_year == 2024

TARGETS == 1..NumTargets

\* RESULTS_LIST_API_URL.format(start, length, authority, region)
RESULTS_LIST_API_URL(start, length, target) == <<"PublishedDocument/Get", start, length, target>>
\* PROJECT_PAGE_API_URL.format(document_id)
PROJECT_PAGE_API_URL(document_id) == <<"PublishedDocument/GetByDocumentId", document_id>>
\* the text of a documentId of the dataset, as format() writes it: the ids are
\* the portal's, the third one has a space in it
DocumentIdText(document_id) ==
    CASE document_id = 1 -> <<"1">>
      [] document_id = 2 -> <<"2">>
      [] document_id = 3 -> <<"2", " ", "Bis">>
\* PROJECT_PAGE_WEB_URL.format(document_id)
PROJECT_PAGE_WEB_URL(document_id) == <<"#/public/view-document/">> \o DocumentIdText(document_id)
\* DOCUMENT_DOWNLOAD_URL.format(file_id)
DOCUMENT_DOWNLOAD_URL(file_id) == <<"Attachment/PublishedDownload", file_id>>

(* --------------------------- small helpers ----------------------------- *)
Range(s) == {s[i] : i \in DOMAIN s}

\* item[k] = v on a scrapy Item: the field becomes set
SetField(item, k, v) == [x \in (DOMAIN item) \cup {k} |-> IF x = k THEN v ELSE item[x]]

\* int(s) for the year strings of the dataset
IntOfYear(s) == CASE s = "2023" -> 2023 [] s = "2024" -> 2024 [] s = "2025" -> 2025

\* ts[:4] of a timestamp <<year, rest, fraction>>
Prefix4(ts) == ts[1]

(* ------------------------------ dataset -------------------------------- *)
\* A timestamp string is <<"YYYY", "-MM-DDTHH:MM:SS", fraction>>; the portal
\* sometimes leaves the fraction out.
GoodTs(y) == <<y, "-03-01T10:00:00", ".123">>
BadTs(y) == <<y, "-03-01T10:00:00", "">>
NoDate == <<>>

FileIds == {11, 12, 13}
DocumentIds == {1, 2}

(* Strings that the code inspects are sequences of tokens: a token is a    *)
(* word or one separator character ("NBSP" is U+00A0, "RSQUO" is U+2019).  *)
Separators == {" ", "NBSP", "-", ".", ",", "_", "'", "RSQUO"}

\* str.lower(), token by token
LowerTok(t) ==
    CASE t = "Cas" -> "cas"
      [] t = "Demande" -> "demande"
      [] t = "Décision" -> "décision"
      [] t = "Decision" -> "decision"
      [] t = "Avis" -> "avis"
      [] t = "Autre" -> "autre"
      [] t = "Parc" -> "parc"
      [] t = "Metz" -> "metz"
      [] t = "Nancy" -> "nancy"
      [] t = "ZAC" -> "zac"
      [] t = "PDF" -> "pdf"
      [] t = "Bis" -> "bis"
      [] OTHER -> t
Lower(s) == [i \in DOMAIN s |-> LowerTok(s[i])]

\* sub in s
Contains(s, sub) ==
    \E i \in 0..(Len(s) - Len(sub)) : SubSeq(s, i + 1, i + Len(sub)) = sub

\* s.startswith(pre)
StartsWith(s, pre) == Len(pre) <= Len(s) /\ SubSeq(s, 1, Len(pre)) = pre

\* s.lstrip(chars), s.rstrip(chars), s.strip(chars): chars is a set of separators
RECURSIVE LStrip(_, _)
LStrip(s, chars) ==
    IF s # <<>> /\ Head(s) \in chars THEN LStrip(Tail(s), chars) ELSE s
RECURSIVE RStrip(_, _)
RStrip(s, chars) ==
    IF s # <<>> /\ s[Len(s)] \in chars THEN RStrip(SubSeq(s, 1, Len(s) - 1), chars) ELSE s
Strip(s, chars) == RStrip(LStrip(s, chars), chars)

\* str.strip() without argument strips whitespace; U+00A0 is whitespace to Python
Whitespace == {" ", "NBSP"}

\* s.replace(old, new): every non-overlapping occurrence, leftmost first
RECURSIVE Replace(_, _, _)
Replace(s, old, new) ==
    IF s = <<>> THEN <<>>
    ELSE IF StartsWith(s, old)
         THEN new \o Replace(SubSeq(s, Len(old) + 1, Len(s)), old, new)
         ELSE <<Head(s)>> \o Replace(Tail(s), old, new)

\* the portal's data: what the two API endpoints answer
CasParCas == <<"Cas", " ", "par", " ", "cas">>
DemandeAvis == <<"Demande", " ", "d", "RSQUO", "avis">>
AutreCategorie == <<"Autre">>

\* nondeterministic parts of the dataset, fixed for a run
Totals == {0} \cup {(k - 1) * RESULTS_LENGTH + 1 : k \in 1..MaxPages}
              \cup {k * RESULTS_LENGTH : k \in 1..MaxPages}
UpdatedDates == {NoDate, GoodTs("2025"), BadTs("2024")}
Extensions == {<<"pdf">>, <<"PDF">>, <<"exe">>, <<>>}
Categories == {CasParCas, DemandeAvis, AutreCategorie}

BaselinePortal ==
    [total1 |-> RESULTS_LENGTH + 1, totalN |-> 1, updatedDate1 |-> NoDate,
     extension12 |-> <<"pdf">>, year2 |-> "2024", attachmentIds2 |-> <<"13">>,
     categoryName1 |-> CasParCas]

\* the baseline and every dataset that differs from it in one attribute
Portals ==
    {p \in [total1 : Totals, totalN : {0, 1}, updatedDate1 : UpdatedDates,
            extension12 : Extensions, year2 : {"2023", "2024"},
            attachmentIds2 : {<<>>, <<"13">>}, categoryName1 : Categories] :
        Cardinality({k \in DOMAIN p : p[k] # BaselinePortal[k]}) <= 1}

\* the fields DocumentItem declares
DocumentItemFields ==
    {"title", "project", "project_id", "source", "access", "authority", "category",
     "category_local", "source_scraper", "source_file_url", "source_filename",
     "source_page_url", "publication_date", "publication_time", "publication_datetime",
     "publication_datetime_dcformat", "publication_timestamp", "full_info", "headers",
     "error", "year", "departments", "departments_sources"}

\* the fields of a DocumentRecord: those, and the local payload reference
DocumentRecordFields == DocumentItemFields \cup {"local_file_path"}

VARIABLES
    pc,                     \* "main", "aborted", "created", "opened", "crawling", "closed"
    cfg,                    \* add-on inputs: access_level, upload_limit, time_limit,
                            \* dry_run, and whether the run has an id
    client,                 \* what the hosting service answers to main's calls
    portal,                 \* the upstream dataset of this run
    item_fields,            \* DocumentItem.fields: the field names a record supports
    elapsed,                \* datetime.now() - start_time, in seconds
    upload_limit_attained,  \* PEESpider.upload_limit_attained
    closing,                \* reason of the first CloseSpider raised, "" if none
    requests,               \* requests yielded and not yet handled, per callback
    seen,                   \* URLs the scheduler has accepted (its duplicate filter)
    event_data,             \* spider.event_data, the ledger in memory
    tracked,                \* the ledger kept with the run (load/store_event_data)
    json_file,              \* content of event_data.json, NoFile if absent
    files,                  \* local payload files on disk
    chain,                  \* the item in the pipelines and its next stage, or Idle
    number_of_docs,         \* UploadLimitPipeline.number_of_docs
    mail_items,             \* MailPipeline.items
    hosted,                 \* uploads received by the hosting service, per URL
    mails,                  \* mails sent
    ledger0,                \* event_data as loaded by open_spider
    fetched,                \* download responses handed to download_document, per file id
    emitted,                \* records yielded by download_document, per file id
    outcome                 \* how the pipelines ended for each record

vars == <<pc, cfg, client, portal, item_fields, elapsed, upload_limit_attained, closing, requests, seen,
          event_data, tracked, json_file, files, chain, number_of_docs, mail_items,
          hosted, mails, ledger0, fetched, emitted, outcome>>

Idle == [stage |-> 0]
NoFile == [exists |-> FALSE, data |-> <<>>]
FileOf(ledger) == [exists |-> TRUE, data |-> ledger]
EmptyLedger == <<>>

\* a ledger of an earlier run that holds the attachments ids
LedgerOf(ids) ==
    [u \in {DOCUMENT_DOWNLOAD_URL(f) : f \in ids} |->
        [last_seen |-> 0 - 1, target_year |-> "2024"]]

\* every upload limit with every run mode; the time limit is tried on
\* tracked runs that upload
\* with every access level on an unlimited tracked run that uploads
AccessLevels == {"public", "secret"}
Configs ==
    {c \in [access_level : AccessLevels, upload_limit : 0..MaxUploadLimit,
            time_limit : {0, 1}, dry_run : BOOLEAN, run_id : BOOLEAN] :
        /\ c.time_limit # 0 => (~c.dry_run /\ c.run_id)
        /\ c.access_level # "public" =>
              (c.upload_limit = 0 /\ c.time_limit = 0 /\ ~c.dry_run /\ c.run_id)}

\* client.users.get("me") and get_project_id: the service answers, or one of
\* the calls fails
OkClient == [verified_journalist |-> TRUE, users_get_raises |-> FALSE, project_raises |-> FALSE]
Clients ==
    {OkClient, [OkClient EXCEPT !.verified_journalist = FALSE],
     [OkClient EXCEPT !.users_get_raises = TRUE], [OkClient EXCEPT !.project_raises = TRUE]}

\* PEESpider.target_years, from from_year on
target_years == {y \in {2023, 2024, 2025} : y >= from_year}

(* ------------------------- the portal's answers ------------------------ *)
PublishedDate(document_id) ==
    IF document_id = 1 THEN GoodTs("2024") ELSE GoodTs(portal.year2)

ProjectSummary(document_id) ==
    [documentId |-> document_id,
     publishedDate |-> PublishedDate(document_id),
     publishedAttachmentIds |->
        IF document_id = 1 THEN <<"11", ",", "12">> ELSE portal.attachmentIds2]

\* GET RESULTS_LIST_API_URL: project 1 is on page 1 of target 1, project 2 on
\* page 2 of target 1 and on page 1 of target 2; the other entries of a page
\* are projects of earlier years
ListingTotal(target) == IF target = 1 THEN portal.total1 ELSE portal.totalN

ListingResponse(target, page) ==
    [totalCount |-> ListingTotal(target),
     data |->
        IF (page - 1) * RESULTS_LENGTH >= ListingTotal(target) THEN <<>>
        ELSE IF target = 1 /\ page = 1 THEN <<ProjectSummary(1)>>
        ELSE IF target = 1 /\ page = 2 THEN <<ProjectSummary(2)>>
        ELSE IF target = 2 /\ page = 1 THEN <<ProjectSummary(2)>>
        ELSE <<>>]

\* GET PROJECT_PAGE_API_URL
ProjectResponse(document_id) ==
    IF document_id = 1 THEN
        [municipality |-> <<"Metz">>,
         projectTitle |-> <<"parc", " ", "solaire", " ", "-", " ">>,
         authority |-> <<"Préfet de la région", " ", "Grand", " ", "Est">>,
         categoryName |-> portal.categoryName1,
         publishedDate |-> PublishedDate(1),
         updatedDate |-> portal.updatedDate1,
         attachments |-> <<
            [id |-> 11, name |-> <<"arrete", "_", "prefectoral">>,
             extension |-> <<"pdf">>, folderName |-> <<"Décision">>],
            [id |-> 12, name |-> <<"etude">>,
             extension |-> portal.extension12, folderName |-> <<"Autre">>] >>]
    ELSE
        [municipality |-> <<"Nancy">>,
         projectTitle |-> <<"ZAC", " ", "de", " ", "nancy", ".">>,
         authority |-> <<"MRae de la région", " ", "Grand", " ", "Est">>,
         categoryName |-> CasParCas,
         publishedDate |-> PublishedDate(2),
         updatedDate |-> NoDate,
         attachments |->
            IF portal.attachmentIds2 = <<>> THEN <<>>
            ELSE << [id |-> 13, name |-> <<"avis", "_", "mrae">>,
                     extension |-> <<"pdf">>, folderName |-> <<"Avis">>] >>]

(* ------------------------------- start --------------------------------- *)
Start ==
    /\ pc = "main"
    /\ cfg \in Configs
    /\ client \in {c \in Clients : cfg.dry_run => c = OkClient}
    /\ portal \in Portals
    /\ elapsed = 0
    /\ upload_limit_attained = FALSE
    /\ closing = ""
    /\ requests = [parse_results |-> {}, parse_project_page |-> {}, download_document |-> {}]
    /\ seen = {}
    /\ event_data = EmptyLedger
    /\ \E ids \in SUBSET FileIds :
          /\ tracked = IF cfg.dry_run THEN EmptyLedger ELSE LedgerOf(ids)
          /\ json_file = IF cfg.dry_run THEN FileOf(LedgerOf(ids)) ELSE NoFile
    /\ files = {}
    /\ chain = Idle
    /\ number_of_docs = 0
    /\ mail_items = <<>>
    /\ hosted = [f \in FileIds |-> 0]
    /\ mails = <<>>
    /\ ledger0 = EmptyLedger
    /\ fetched = [f \in FileIds |-> 0]
    /\ emitted = [f \in FileIds |-> 0]
    /\ outcome = [f \in FileIds |-> "none"]

\* a run whose records hold the local payload reference
Init == Start /\ item_fields = DocumentRecordFields

\* a run whose records hold the fields DocumentItem declares
InitDeclared == Start /\ item_fields = DocumentItemFields

\* the wall clock advances (it is read at the entry of a callback and by the
\* upload pipeline: steps are taken between two handlers)
Tick ==
    /\ pc \notin {"closed", "aborted"}
    /\ chain.stage = 0
    /\ elapsed < MaxElapsed
    /\ elapsed' = elapsed + TickStep
    /\ UNCHANGED <<pc, cfg, client, portal, item_fields, upload_limit_attained, closing, requests, seen,
                   event_data, tracked, json_file, files, chain, number_of_docs,
                   mail_items, hosted, mails, ledger0, fetched, emitted, outcome>>

\* DisclosePEEScraper.check_access_level exits
check_access_level == cfg.access_level \notin {"public", "organization", "private"}

\* check_permissions: the mail it sends before sys.exit(1), if it exits
check_permissions ==
    IF client.users_get_raises
    THEN <<[subject |-> "PEE Scraper - Error connecting to DocumentCloud"]>>
    ELSE IF ~client.verified_journalist
    THEN <<[subject |-> "You must verify your account to use Disclose's Scraper Add-On"]>>
    ELSE <<>>

\* DisclosePEEScraper.main up to process.crawl: the run is aborted by the
\* "Project error" exception or by check_permissions, else the crawl is
\* launched; check_access_level is not called
main ==
    /\ pc = "main"
    /\ IF cfg.dry_run
       THEN pc' = "created" /\ UNCHANGED mails
       ELSE IF client.project_raises
       THEN pc' = "aborted" /\ UNCHANGED mails
       ELSE IF check_permissions # <<>>
       THEN pc' = "aborted" /\ mails' = mails \o check_permissions
       ELSE pc' = "created" /\ UNCHANGED mails
    /\ UNCHANGED <<cfg, client, portal, item_fields, elapsed, upload_limit_attained, closing, requests,
                   seen, event_data, tracked, json_file, files, chain, number_of_docs,
                   mail_items, hosted, ledger0, fetched, emitted, outcome>>

\* UploadPipeline.open_spider: what spider.event_data is loaded from
LoadedEventData ==
    LET loaded == IF ~cfg.dry_run THEN tracked
                  ELSE IF json_file.exists THEN json_file.data ELSE EmptyLedger
    IN  IF DOMAIN loaded # {} THEN loaded ELSE EmptyLedger

\* open_spider of UploadLimitPipeline, UploadPipeline and MailPipeline
open_spider ==
    /\ pc = "created"
    /\ pc' = "opened"
    /\ number_of_docs' = 0
    /\ event_data' = LoadedEventData
    /\ ledger0' = LoadedEventData
    /\ mail_items' = <<>>
    /\ UNCHANGED <<cfg, client, portal, item_fields, elapsed, upload_limit_attained, closing, requests, seen,
                   tracked, json_file, files, chain, hosted, mails, fetched, emitted,
                   outcome>>

(* ------------------------------ the spider ----------------------------- *)
\* mutant: the flag is never looked at
check_upload_limit_never == FALSE

\* check_upload_limit raises CloseSpider
check_upload_limit == upload_limit_attained

\* mutant: the limit is taken for hours
check_time_limit_hours ==
    /\ cfg.time_limit # 0
    /\ elapsed > cfg.time_limit * 3600

\* check_time_limit raises CloseSpider
check_time_limit ==
    /\ cfg.time_limit # 0
    /\ elapsed > cfg.time_limit * 60

\* the two checks at the entry of a callback: the reason raised, "" if none
EntryCheck ==
    IF check_upload_limit THEN "max documents limit"
    ELSE IF check_time_limit THEN "time limit"
    ELSE ""

\* the engine's close_spider on a CloseSpider exception: the first reason stays
CloseSpider(reason) == closing' = IF closing = "" THEN reason ELSE closing

\* mutant: the scheduler takes every request
Accepted_all(new) == new

\* the scheduler takes the requests whose URL it has not seen in this run
Accepted(new) == {r \in new : r.url \notin seen}
Urls(new) == {r.url : r \in new}

start_requests ==
    /\ pc = "opened"
    /\ pc' = "crawling"
    /\ LET new == {[url |-> RESULTS_LIST_API_URL(0, RESULTS_LENGTH, t),
                     target |-> t, page |-> 1] : t \in TARGETS}
       IN /\ requests' = [requests EXCEPT !.parse_results = @ \cup Accepted(new)]
          /\ seen' = seen \cup Urls(new)
    /\ UNCHANGED <<cfg, client, portal, item_fields, elapsed, upload_limit_attained, closing, event_data,
                   tracked, json_file, files, chain, number_of_docs, mail_items,
                   hosted, mails, ledger0, fetched, emitted, outcome>>

\* [int(x) for x in s.split(",")]
IntOfId(x) == CASE x = "11" -> 11 [] x = "12" -> 12 [] x = "13" -> 13
SplitIds(s) ==
    LET parts == SelectSeq(s, LAMBDA t : t # ",")
    IN  [i \in DOMAIN parts |-> IntOfId(parts[i])]

\* mutant: one attachment in the ledger is enough to skip the project
already_fully_scraped_any(file_ids) ==
    \E i \in DOMAIN file_ids : DOCUMENT_DOWNLOAD_URL(file_ids[i]) \in DOMAIN event_data

\* parse_results, lines 118-124
already_fully_scraped(file_ids) ==
    \A i \in DOMAIN file_ids : DOCUMENT_DOWNLOAD_URL(file_ids[i]) \in DOMAIN event_data

\* mutant: projects of every year are expanded
Expanded_anyyear(project) ==
    /\ project.publishedAttachmentIds # <<>>
    /\ ~already_fully_scraped(SplitIds(project.publishedAttachmentIds))

\* parse_results, lines 100-131: the project is expanded into a detail request
Expanded(project) ==
    /\ IntOfYear(Prefix4(project.publishedDate)) \in target_years
    /\ project.publishedAttachmentIds # <<>>
    /\ ~already_fully_scraped(SplitIds(project.publishedAttachmentIds))

\* mutant: the next page is asked for when the listing ends on a page boundary
NextPage_le(target, page, total) ==
    IF page * RESULTS_LENGTH <= total
    THEN {[url |-> RESULTS_LIST_API_URL(page * RESULTS_LENGTH, RESULTS_LENGTH, target),
           target |-> target, page |-> page + 1]}
    ELSE {}

\* parse_results, lines 133-146
NextPage(target, page, total) ==
    IF page * RESULTS_LENGTH < total
    THEN {[url |-> RESULTS_LIST_API_URL(page * RESULTS_LENGTH, RESULTS_LENGTH, target),
           target |-> target, page |-> page + 1]}
    ELSE {}

parse_results(r) ==
    /\ pc = "crawling"
    /\ chain.stage = 0
    /\ r \in requests.parse_results
    /\ IF EntryCheck # ""
       THEN /\ CloseSpider(EntryCheck)
            /\ requests' = [requests EXCEPT !.parse_results = @ \ {r}]
            /\ UNCHANGED seen
       ELSE LET data == ListingResponse(r.target, r.page)
                projects == {[url |-> PROJECT_PAGE_API_URL(p.documentId),
                              document_id |-> p.documentId] :
                                p \in {q \in Range(data.data) : Expanded(q)}}
                next == NextPage(r.target, r.page, data.totalCount)
            IN  /\ requests' = [requests EXCEPT
                        !.parse_results = (@ \ {r}) \cup Accepted(next),
                        !.parse_project_page = @ \cup Accepted(projects)]
                /\ seen' = seen \cup Urls(next) \cup Urls(projects)
                /\ UNCHANGED closing
    /\ UNCHANGED <<pc, cfg, client, portal, item_fields, elapsed, upload_limit_attained, event_data, tracked,
                   json_file, files, chain, number_of_docs, mail_items, hosted, mails,
                   ledger0, fetched, emitted, outcome>>

\* parse_project_page, lines 156-160
ProjectTitle(data) ==
    LET project_title == Strip(data.projectTitle, {" ", "-", "."})
    IN  IF ~Contains(Lower(project_title), Lower(data.municipality))
        THEN project_title \o <<" ", "-", " ">> \o data.municipality
        ELSE project_title

\* parse_project_page, lines 169-176
PublicationTimestamp(data, a) ==
    IF a.folderName \in {<<"Décision">>, <<"Avis">>}
    THEN IF data.updatedDate # NoDate THEN data.updatedDate ELSE data.publishedDate
    ELSE data.publishedDate

\* parse_project_page, lines 178-185
DocTitle(a) ==
    IF /\ a.folderName = <<"Décision">>
       /\ ~Contains(Lower(a.name), <<"décision">>)
       /\ ~Contains(Lower(a.name), <<"decision">>)
    THEN a.folderName \o <<" ", "-", " ">> \o Strip(a.name, Whitespace)
    ELSE a.name

\* parse_project_page, lines 187-200
DocumentItem(data, a, document_id) ==
    [title |-> DocTitle(a),
     project |-> ProjectTitle(data),
     authority |-> data.authority,
     category_local |-> data.categoryName,
     source_file_url |-> DOCUMENT_DOWNLOAD_URL(a.id),
     source_page_url |-> PROJECT_PAGE_WEB_URL(document_id),
     source_filename |-> a.name \o <<".">> \o a.extension,
     publication_timestamp |-> PublicationTimestamp(data, a),
     year |-> Prefix4(data.publishedDate)]

\* parse_project_page, lines 162-167: the attachments that are not in the ledger
NewAttachments(data) ==
    {a \in Range(data.attachments) : DOCUMENT_DOWNLOAD_URL(a.id) \notin DOMAIN event_data}

parse_project_page(r) ==
    /\ pc = "crawling"
    /\ chain.stage = 0
    /\ r \in requests.parse_project_page
    /\ IF EntryCheck # ""
       THEN /\ CloseSpider(EntryCheck)
            /\ requests' = [requests EXCEPT !.parse_project_page = @ \ {r}]
            /\ UNCHANGED seen
       ELSE LET data == ProjectResponse(r.document_id)
                downloads == {[url |-> DOCUMENT_DOWNLOAD_URL(a.id),
                               doc_item |-> DocumentItem(data, a, r.document_id),
                               file_id |-> a.id] : a \in NewAttachments(data)}
            IN  /\ requests' = [requests EXCEPT
                        !.parse_project_page = @ \ {r},
                        !.download_document = @ \cup Accepted(downloads)]
                /\ seen' = seen \cup Urls(downloads)
                /\ UNCHANGED closing
    /\ UNCHANGED <<pc, cfg, client, portal, item_fields, elapsed, upload_limit_attained, event_data, tracked,
                   json_file, files, chain, number_of_docs, mail_items, hosted, mails,
                   ledger0, fetched, emitted, outcome>>

\* download_document, line 223
LocalFilePath(file_id, doc_item) == <<"downloaded_files", file_id, doc_item.source_filename>>

\* doc_item[k] = v, scrapy.Item.__setitem__: a field that is not declared
\* raises KeyError
SupportsField(k) == k \in item_fields

\* download_document: the payload is written, then the path is set on the
\* item and the item goes to the pipelines; when the assignment raises, the
\* callback ends there and yields nothing
download_document(r) ==
    /\ pc = "crawling"
    /\ chain.stage = 0
    /\ r \in requests.download_document
    /\ requests' = [requests EXCEPT !.download_document = @ \ {r}]
    /\ fetched' = [fetched EXCEPT ![r.file_id] = @ + 1]
    /\ IF EntryCheck # ""
       THEN /\ CloseSpider(EntryCheck)
            /\ UNCHANGED <<files, chain, emitted>>
       ELSE LET local_file_path == LocalFilePath(r.file_id, r.doc_item)
            IN  /\ files' = files \cup {local_file_path}
                /\ IF SupportsField("local_file_path")
                   THEN /\ chain' = [stage |-> 1,
                                     item |-> SetField(r.doc_item, "local_file_path",
                                                       local_file_path)]
                        /\ emitted' = [emitted EXCEPT ![r.file_id] = @ + 1]
                   ELSE UNCHANGED <<chain, emitted>>
                /\ UNCHANGED closing
    /\ UNCHANGED <<pc, cfg, client, portal, item_fields, elapsed, upload_limit_attained, seen,
                   event_data, tracked, json_file, number_of_docs, mail_items, hosted, mails,
                   ledger0, outcome>>

\* the closing engine drops a request that was still in the scheduler
drop_scheduled ==
    /\ pc = "crawling"
    /\ chain.stage = 0
    /\ closing # ""
    /\ \E k \in DOMAIN requests : \E r \in requests[k] :
          requests' = [requests EXCEPT ![k] = @ \ {r}]
    /\ UNCHANGED <<pc, cfg, client, portal, item_fields, elapsed, upload_limit_attained, closing, seen,
                   event_data, tracked, json_file, files, chain, number_of_docs,
                   mail_items, hosted, mails, ledger0, fetched, emitted, outcome>>

(* --------------------------- the item pipelines ------------------------ *)
\* ITEM_PIPELINES of the scraper's settings, in the order they run
ITEM_PIPELINES ==
    <<"ParseDatePipeline", "UnsupportedFiletypePipeline", "BeautifyPipeline",
      "CategoryPipeline", "UploadLimitPipeline", "TagDepartmentsPipeline",
      "ProjectIDPipeline", "UploadPipeline", "MailPipeline", "DeleteFilesPipeline">>

\* the item is at the pipeline of that name
AtStage(name) ==
    /\ pc = "crawling"
    /\ chain.stage # 0
    /\ ITEM_PIPELINES[chain.stage] = name

FileIdOf(item) == item.source_file_url[2]

\* process_item returns the item: it goes to the next pipeline, if any
Return(item) ==
    IF chain.stage = Len(ITEM_PIPELINES)
    THEN /\ chain' = Idle
         /\ outcome' = [outcome EXCEPT ![FileIdOf(item)] = "processed"]
    ELSE /\ chain' = [stage |-> chain.stage + 1, item |-> item]
         /\ UNCHANGED outcome

\* process_item raises: no later pipeline sees the item
Raise(exception) ==
    /\ chain' = Idle
    /\ outcome' = [outcome EXCEPT ![FileIdOf(chain.item)] = exception]

\* datetime.strptime(ts, "%Y-%m-%dT%H:%M:%S.%f") succeeds
Strptime(ts) == Len(ts) = 3 /\ ts[3] # ""

ParseDatePipeline ==
    /\ AtStage("ParseDatePipeline")
    /\ LET item == chain.item
           ts == item.publication_timestamp
           date == <<ts[1], "-03-01">>
           time == "10:00:00 UTC"
           i1 == SetField(item, "publication_date", date)
           i2 == SetField(i1, "publication_time", time)
           i3 == SetField(i2, "publication_datetime", date \o <<" ", time>>)
           i4 == SetField(i3, "publication_datetime_dcformat",
                          <<ts[1], "-03-01T10:00:00", ts[3] \o "000", "Z">>)
       IN  IF Strptime(ts) THEN Return(i4) ELSE Raise("ValueError")
    /\ UNCHANGED <<pc, cfg, client, portal, item_fields, elapsed, upload_limit_attained, closing, requests,
                   seen, event_data, tracked, json_file, files, number_of_docs,
                   mail_items, hosted, mails, ledger0, fetched, emitted>>

\* documentcloud.constants.SUPPORTED_EXTENSIONS (some of them)
SUPPORTED_EXTENSIONS ==
    {<<".", "pdf">>, <<".", "doc">>, <<".", "docx">>, <<".", "odt">>, <<".", "txt">>}

\* os.path.splitext(filename)[1]: from the last dot on, unless only dots precede it
SplitExt(filename) ==
    LET dots == {i \in DOMAIN filename :
                    /\ filename[i] = "."
                    /\ \E j \in 1..(i - 1) : filename[j] # "."}
    IN  IF dots = {} THEN <<>>
        ELSE LET last == CHOOSE i \in dots : \A j \in dots : j <= i
             IN  SubSeq(filename, last, Len(filename))

\* mutant: the extension is compared as it is written
Supported_nolower(item) == SplitExt(item.source_filename) \in SUPPORTED_EXTENSIONS

\* UnsupportedFiletypePipeline.process_item, lines 52-55
Supported(item) == Lower(SplitExt(item.source_filename)) \in SUPPORTED_EXTENSIONS

UnsupportedFiletypePipeline ==
    /\ AtStage("UnsupportedFiletypePipeline")
    /\ IF Supported(chain.item) THEN Return(chain.item) ELSE Raise("DropItem")
    /\ UNCHANGED <<pc, cfg, client, portal, item_fields, elapsed, upload_limit_attained, closing, requests,
                   seen, event_data, tracked, json_file, files, number_of_docs,
                   mail_items, hosted, mails, ledger0, fetched, emitted>>

\* s[0].capitalize() + s[1:]
CapTok(t) ==
    CASE t = "parc" -> "Parc"
      [] t = "arrete" -> "Arrete"
      [] t = "etude" -> "Etude"
      [] t = "avis" -> "Avis"
      [] t = "cas" -> "Cas"
      [] t = "rapport" -> "Rapport"
      [] t = "plan" -> "Plan"
      [] OTHER -> t
CapitalizeFirst(s) == <<CapTok(s[1])>> \o Tail(s)

\* BeautifyPipeline.process_item, lines 67-69 and 74-77, 83-91, 94-96
BeautifyProject(s) ==
    RStrip(Replace(Replace(Strip(s, Whitespace), <<"NBSP">>, <<" ">>), <<"RSQUO">>, <<"'">>),
           {".", ","})
BeautifyTitle(s) ==
    Strip(Strip(RStrip(Replace(s, <<"_">>, <<" ">>), {".", ","}), {"-"}), Whitespace)
BeautifyAuthority(s) ==
    Replace(Replace(Replace(s, <<"Préfet de la région">>, <<"Préfecture de région">>),
                    <<"MRae de la région">>, <<"MRAe">>),
            <<"Autorité Environnementale Ministre (CGDD)">>, <<"Ministère de l'Environnement">>)
BeautifyCategory(s) == Replace(Replace(s, <<"NBSP">>, <<" ">>), <<"RSQUO">>, <<"'">>)

\* lines 71 and 79: s[0] of an empty string raises IndexError
BeautifyRaises(item) ==
    BeautifyProject(item.project) = <<>> \/ BeautifyTitle(item.title) = <<>>

\* the item BeautifyPipeline.process_item returns
Beautify(item) ==
    [item EXCEPT
        !.project = CapitalizeFirst(BeautifyProject(item.project)),
        !.title = CapitalizeFirst(BeautifyTitle(item.title)),
        !.authority = BeautifyAuthority(item.authority),
        !.category_local = BeautifyCategory(item.category_local)]

BeautifyPipeline ==
    /\ AtStage("BeautifyPipeline")
    /\ IF BeautifyRaises(chain.item)
       THEN Raise("IndexError")
       ELSE Return(Beautify(chain.item))
    /\ UNCHANGED <<pc, cfg, client, portal, item_fields, elapsed, upload_limit_attained, closing, requests,
                   seen, event_data, tracked, json_file, files, number_of_docs,
                   mail_items, hosted, mails, ledger0, fetched, emitted>>

\* CategoryPipeline.process_item
Categorize(item) ==
    IF Contains(Lower(item.category_local), <<"cas", " ", "par", " ", "cas">>)
    THEN SetField(item, "category", "Cas par cas")
    ELSE IF StartsWith(item.category_local, <<"Demande", " ", "d", "'", "avis">>)
    THEN SetField(item, "category", "Avis")
    ELSE item

CategoryPipeline ==
    /\ AtStage("CategoryPipeline")
    /\ Return(Categorize(chain.item))
    /\ UNCHANGED <<pc, cfg, client, portal, item_fields, elapsed, upload_limit_attained, closing, requests,
                   seen, event_data, tracked, json_file, files, number_of_docs,
                   mail_items, hosted, mails, ledger0, fetched, emitted>>

\* mutant: one record more than the limit goes through
UnderLimit_le(n) == cfg.upload_limit = 0 \/ n <= cfg.upload_limit + 1

\* mutant: off by one
UnderLimit_offbyone(n) == cfg.upload_limit = 0 \/ n < cfg.upload_limit

\* mutant: 0 is not taken for "no limit"
UnderLimit_nozero(n) == n < cfg.upload_limit + 1

\* UploadLimitPipeline.process_item, line 124, on the incremented counter
UnderLimit(n) == cfg.upload_limit = 0 \/ n < cfg.upload_limit + 1

\* mutant: the veto leaves the flag as it is
AttainedOnVeto_unset == upload_limit_attained

\* UploadLimitPipeline.process_item, line 127
AttainedOnVeto == TRUE

UploadLimitPipeline ==
    /\ AtStage("UploadLimitPipeline")
    /\ number_of_docs' = number_of_docs + 1
    /\ IF UnderLimit(number_of_docs + 1)
       THEN /\ Return(chain.item)
            /\ UNCHANGED upload_limit_attained
       ELSE /\ upload_limit_attained' = AttainedOnVeto
            /\ Raise("SilentDropItem")
    /\ UNCHANGED <<pc, cfg, client, portal, item_fields, elapsed, closing, requests, seen, event_data,
                   tracked, json_file, files, mail_items, hosted, mails, ledger0,
                   fetched, emitted>>

\* departments.department_from_authority: the department a prefecture names
department_from_authority(authority) ==
    IF Contains(authority, <<"Moselle">>) THEN <<"57">> ELSE <<>>

\* departments.departments_from_project_name: the departments a name mentions
departments_from_project_name(project) ==
    IF Contains(Lower(project), <<"nancy">>) THEN <<"54">> ELSE <<>>

\* TagDepartmentsPipeline.process_item
TagDepartments(item) ==
    IF department_from_authority(item.authority) # <<>>
    THEN SetField(SetField(item, "departments_sources", <<"authority">>),
                  "departments", department_from_authority(item.authority))
    ELSE IF departments_from_project_name(item.project) # <<>>
    THEN SetField(SetField(item, "departments_sources", <<"regex">>),
                  "departments", departments_from_project_name(item.project))
    ELSE item

TagDepartmentsPipeline ==
    /\ AtStage("TagDepartmentsPipeline")
    /\ Return(TagDepartments(chain.item))
    /\ UNCHANGED <<pc, cfg, client, portal, item_fields, elapsed, upload_limit_attained, closing, requests,
                   seen, event_data, tracked, json_file, files, number_of_docs,
                   mail_items, hosted, mails, ledger0, fetched, emitted>>

\* ProjectIDPipeline.process_item: sha256 of source_page_url + " " + project
string_to_hash(source_page_url, project_name) == source_page_url \o <<" ">> \o project_name
Sha256(string) == <<"sha256", string>>

ProjectIDPipeline ==
    /\ AtStage("ProjectIDPipeline")
    /\ Return(SetField(chain.item, "project_id",
                       Sha256(string_to_hash(chain.item.source_page_url, chain.item.project))))
    /\ UNCHANGED <<pc, cfg, client, portal, item_fields, elapsed, upload_limit_attained, closing, requests,
                   seen, event_data, tracked, json_file, files, number_of_docs,
                   mail_items, hosted, mails, ledger0, fetched, emitted>>

\* UploadPipeline.process_item, lines 206-220: the fields read with item[...]
UploadData ==
    {"authority", "category", "category_local", "source_file_url", "publication_date",
     "publication_time", "publication_datetime", "year", "source_filename",
     "source_page_url", "project_id"}

\* mutant: the year of the publication date instead of the record's year
LedgerEntry_pubyear(item) == [last_seen |-> elapsed, target_year |-> item.publication_date[1]]

\* UploadPipeline.process_item, lines 250-257
LedgerEntry(item) == [last_seen |-> elapsed, target_year |-> item.year]
AddToEventData(item) == SetField(event_data, item.source_file_url, LedgerEntry(item))

\* mutant: the entry is written whether or not the upload raised
CommitLedger_always(item, uploaded) ==
    SetField(event_data, item.source_file_url,
             [last_seen |-> elapsed, target_year |-> item.year])

\* UploadPipeline.process_item, lines 230-257: the ledger after the try statement
CommitLedger(item, uploaded) == IF uploaded THEN AddToEventData(item) ELSE event_data

\* mutant: the ledger is persisted at the end of the run only
StoreAfterUpload_batched(ledger) == tracked

\* UploadPipeline.process_item, lines 259-261
StoreAfterUpload(ledger) == IF cfg.run_id THEN ledger ELSE tracked

\* UploadPipeline.process_item, line 231: the upload is called
UploadCalled == ~cfg.dry_run

UploadPipeline ==
    /\ AtStage("UploadPipeline")
    /\ LET item == chain.item
       IN  IF ~(UploadData \subseteq DOMAIN item)
           THEN /\ Raise("KeyError")
                /\ UNCHANGED <<event_data, tracked, hosted>>
           ELSE \E uploaded \in BOOLEAN :
                /\ UploadCalled \/ uploaded
                /\ event_data' = CommitLedger(item, uploaded)
                /\ IF uploaded
                   THEN /\ hosted' = IF UploadCalled
                                     THEN [hosted EXCEPT ![FileIdOf(item)] = @ + 1]
                                     ELSE hosted
                        /\ tracked' = StoreAfterUpload(event_data')
                        /\ Return(item)
                   ELSE /\ Raise("Upload error")
                        /\ UNCHANGED <<tracked, hosted>>
    /\ UNCHANGED <<pc, cfg, client, portal, item_fields, elapsed, upload_limit_attained, closing, requests,
                   seen, json_file, files, number_of_docs, mail_items, mails, ledger0,
                   fetched, emitted>>

MailPipeline ==
    /\ AtStage("MailPipeline")
    /\ mail_items' = Append(mail_items, chain.item)
    /\ Return(chain.item)
    /\ UNCHANGED <<pc, cfg, client, portal, item_fields, elapsed, upload_limit_attained, closing, requests,
                   seen, event_data, tracked, json_file, files, number_of_docs, hosted,
                   mails, ledger0, fetched, emitted>>

DeleteFilesPipeline ==
    /\ AtStage("DeleteFilesPipeline")
    /\ files' = files \ {chain.item.local_file_path}
    /\ Return(chain.item)
    /\ UNCHANGED <<pc, cfg, client, portal, item_fields, elapsed, upload_limit_attained, closing, requests,
                   seen, event_data, tracked, json_file, number_of_docs, mail_items,
                   hosted, mails, ledger0, fetched, emitted>>

(* ------------------------------ the end -------------------------------- *)
NoRequests == \A k \in DOMAIN requests : requests[k] = {}

\* UploadPipeline.close_spider, lines 268-269
StoreAtClose == IF ~cfg.dry_run /\ cfg.run_id THEN event_data ELSE tracked

\* UploadPipeline.close_spider, lines 287-289
SaveJson == IF ~cfg.run_id THEN FileOf(event_data) ELSE json_file

\* mutant: the report counts the records that reached the upload-limit gate
SendMail_attempts ==
    IF ~cfg.dry_run
    THEN Append(mails, [new |-> number_of_docs, run_id |-> cfg.run_id])
    ELSE mails

\* MailPipeline.close_spider, lines 326-340
SendMail ==
    IF ~cfg.dry_run
    THEN Append(mails, [new |-> Len(mail_items), run_id |-> cfg.run_id])
    ELSE mails

\* close_spider of UploadPipeline, MailPipeline and DeleteFilesPipeline, once
\* no request and no item is left
close_spider ==
    /\ pc = "crawling"
    /\ chain.stage = 0
    /\ NoRequests
    /\ pc' = "closed"
    /\ tracked' = StoreAtClose
    /\ json_file' = SaveJson
    /\ mails' = SendMail
    /\ files' = {}
    /\ UNCHANGED <<cfg, client, portal, item_fields, elapsed, upload_limit_attained, closing, requests, seen,
                   event_data, chain, number_of_docs, mail_items, hosted, ledger0,
                   fetched, emitted, outcome>>

Next ==
    \/ Tick
    \/ main
    \/ open_spider
    \/ start_requests
    \/ \E r \in requests.parse_results : parse_results(r)
    \/ \E r \in requests.parse_project_page : parse_project_page(r)
    \/ \E r \in requests.download_document : download_document(r)
    \/ drop_scheduled
    \/ ParseDatePipeline
    \/ UnsupportedFiletypePipeline
    \/ BeautifyPipeline
    \/ CategoryPipeline
    \/ UploadLimitPipeline
    \/ TagDepartmentsPipeline
    \/ ProjectIDPipeline
    \/ UploadPipeline
    \/ MailPipeline
    \/ DeleteFilesPipeline
    \/ close_spider

Spec == Init /\ [][Next]_vars

\* the run with the records DocumentItem declares: no item reaches a pipeline
NextDeclared ==
    \/ Tick
    \/ main
    \/ open_spider
    \/ start_requests
    \/ \E r \in requests.parse_results : parse_results(r)
    \/ \E r \in requests.parse_project_page : parse_project_page(r)
    \/ \E r \in requests.download_document : download_document(r)
    \/ drop_scheduled
    \/ close_spider

SpecDeclared == InitDeclared /\ [][NextDeclared]_vars

(* ----------------- the pipelines on one record, in isolation ----------- *)
(* A record as parse_project_page builds it from a project page of the     *)
(* portal, handed to the pipelines by download_document: the run has just  *)
(* started, the ledger is empty and no limit is set.                       *)
ItemDocumentIds == {1, 2, 3}
ItemProjectTitles ==
    {<<"parc", " ", "solaire">>, <<"Bis", " ", "Metz">>, <<"Metz">>,
     <<"ZAC", " ", "Metz", " ", ",">>}
ItemNames ==
    {<<"etude">>, <<"avis", "_", "mrae">>, <<"rapport", ".", "-">>, <<"plan", ".", "v2">>}
ItemFolders == {<<"Décision">>, <<"Autre">>}

\* the project page of the portal for these inputs, with one attachment
ItemProjectResponse(projectTitle, categoryName, a) ==
    [municipality |-> <<"Metz">>,
     projectTitle |-> projectTitle,
     authority |-> <<"Préfet de la région", " ", "Grand", " ", "Est">>,
     categoryName |-> categoryName,
     publishedDate |-> GoodTs("2024"),
     updatedDate |-> NoDate,
     attachments |-> <<a>>]

ItemRecords ==
    {SetField(DocumentItem(ItemProjectResponse(t, c, a), a, d), "local_file_path",
              LocalFilePath(a.id, DocumentItem(ItemProjectResponse(t, c, a), a, d))) :
        t \in ItemProjectTitles, c \in Categories, d \in ItemDocumentIds,
        a \in [id : {11}, name : ItemNames, extension : Extensions, folderName : ItemFolders]}

InitItems ==
    /\ pc = "crawling"
    /\ cfg = [access_level |-> "public", upload_limit |-> 0, time_limit |-> 0,
              dry_run |-> FALSE, run_id |-> TRUE]
    /\ client = OkClient
    /\ portal = BaselinePortal
    /\ item_fields = DocumentRecordFields
    /\ elapsed = 0
    /\ upload_limit_attained = FALSE
    /\ closing = ""
    /\ requests = [parse_results |-> {}, parse_project_page |-> {}, download_document |-> {}]
    /\ seen = {DOCUMENT_DOWNLOAD_URL(11)}
    /\ event_data = EmptyLedger
    /\ tracked = EmptyLedger
    /\ json_file = NoFile
    /\ chain \in [stage : {1}, item : ItemRecords]
    /\ files = {chain.item.local_file_path}
    /\ number_of_docs = 0
    /\ mail_items = <<>>
    /\ hosted = [f \in FileIds |-> 0]
    /\ mails = <<>>
    /\ ledger0 = EmptyLedger
    /\ fetched = [f \in FileIds |-> IF f = 11 THEN 1 ELSE 0]
    /\ emitted = [f \in FileIds |-> IF f = 11 THEN 1 ELSE 0]
    /\ outcome = [f \in FileIds |-> "none"]

NextItems ==
    \/ ParseDatePipeline
    \/ UnsupportedFiletypePipeline
    \/ BeautifyPipeline
    \/ CategoryPipeline
    \/ UploadLimitPipeline
    \/ TagDepartmentsPipeline
    \/ ProjectIDPipeline
    \/ UploadPipeline
    \/ MailPipeline
    \/ DeleteFilesPipeline

SpecItems == InitItems /\ [][NextItems]_vars

(* ======================== properties of the run ======================== *)
StageIndex(name) == CHOOSE i \in DOMAIN ITEM_PIPELINES : ITEM_PIPELINES[i] = name

\* the limiter reports stop: the time trigger or the count trigger
LimiterReportsStop ==
    \/ cfg.time_limit # 0 /\ elapsed > cfg.time_limit * 60
    \/ upload_limit_attained

\* the projects the listings of the dataset show, and their attachments
ListedProjects ==
    {d \in DocumentIds : \E t \in TARGETS, p \in 1..MaxPages :
        \E i \in DOMAIN ListingResponse(t, p).data :
            ListingResponse(t, p).data[i].documentId = d}
InRangeAttachments ==
    {a.id : a \in UNION {Range(ProjectResponse(d).attachments) :
                d \in {e \in ListedProjects :
                        IntOfYear(PublishedDate(e)[1]) \in target_years}}}
NotInLedger0 ==
    {f \in InRangeAttachments : DOCUMENT_DOWNLOAD_URL(f) \notin DOMAIN ledger0}

\* listing fetches issued for a target
ListingFetches(t) ==
    Cardinality({u \in seen : u[1] = "PublishedDocument/Get" /\ u[4] = t})
Ceil(a, b) == (a + b - 1) \div b

\* C1 (as stated): a run emits records for exactly the in-range attachments
\* whose URL is not in the initial ledger and requests no download of a URL
\* that is in it.
C1_Original ==
    /\ \A f \in FileIds : emitted[f] > 0 => f \in NotInLedger0
    /\ \A f \in FileIds :
          DOCUMENT_DOWNLOAD_URL(f) \in seen => DOCUMENT_DOWNLOAD_URL(f) \notin DOMAIN ledger0
    /\ pc = "closed" => \A f \in NotInLedger0 : emitted[f] > 0

\* C1, for records that hold the local payload reference: the same for a run
\* that the limiter does not close; a run closed by a limit emits a subset of
\* those records.
C1_IdempotentResume ==
    /\ \A f \in FileIds : emitted[f] > 0 => f \in NotInLedger0
    /\ \A f \in FileIds :
          DOCUMENT_DOWNLOAD_URL(f) \in seen => DOCUMENT_DOWNLOAD_URL(f) \notin DOMAIN ledger0
    /\ (pc = "closed" /\ closing = "") => \A f \in NotInLedger0 : emitted[f] > 0

C1_Witness ==
    /\ pc = "closed" /\ closing = ""
    /\ DOMAIN ledger0 = {DOCUMENT_DOWNLOAD_URL(11)}
    /\ emitted[11] = 0 /\ emitted[12] = 1 /\ emitted[13] = 1

SilentlyDropped == {f \in FileIds : outcome[f] = "SilentDropItem"}
C4_Original ==
    (pc = "closed" /\ closing = "") =>
        \A t \in TARGETS : ListingFetches(t) = Ceil(ListingTotal(t), RESULTS_LENGTH)

\* C4 (amended): the first page is always fetched, so the number of listing
\* fetches is max(1, ceil(T / RESULTS_LENGTH)); it is never exceeded.
PagesOf(t) ==
    IF ListingTotal(t) = 0 THEN 1 ELSE Ceil(ListingTotal(t), RESULTS_LENGTH)
C4_PaginationTermination ==
    /\ \A t \in TARGETS : ListingFetches(t) <= PagesOf(t)
    /\ (pc = "closed" /\ closing = "") => \A t \in TARGETS : ListingFetches(t) = PagesOf(t)

C4_Witness ==
    /\ pc = "closed" /\ closing = ""
    /\ portal.total1 = 2 * RESULTS_LENGTH
    /\ ListingFetches(1) = 2

HardErrors == {"ValueError", "Upload error"}
Only11InLedger ==
    DOMAIN ledger0 \cap {DOCUMENT_DOWNLOAD_URL(11), DOCUMENT_DOWNLOAD_URL(12)}
        = {DOCUMENT_DOWNLOAD_URL(11)}
C7_CommitPostcondition ==
    /\ (~cfg.dry_run /\ chain.stage > StageIndex("UploadPipeline")) =>
          /\ chain.item.source_file_url \in DOMAIN event_data
          /\ event_data[chain.item.source_file_url].target_year = chain.item.year
    /\ \A f \in FileIds : (~cfg.dry_run /\ outcome[f] = "processed") =>
          /\ DOCUMENT_DOWNLOAD_URL(f) \in DOMAIN event_data
          /\ event_data[DOCUMENT_DOWNLOAD_URL(f)].target_year
                = Prefix4(PublishedDate(IF f = 13 THEN 2 ELSE 1))
    /\ (Only11InLedger /\ 1 \in ListedProjects) =>
          /\ emitted[11] = 0 /\ emitted[12] <= 1
          /\ (pc = "closed" /\ closing = "") => emitted[12] = 1
          /\ (~cfg.dry_run /\ outcome[12] = "processed") =>
                event_data[DOCUMENT_DOWNLOAD_URL(12)].target_year = "2024"

C7_Witness ==
    /\ ~cfg.dry_run
    /\ Only11InLedger
    /\ outcome[12] = "processed"
    /\ emitted[11] = 0 /\ emitted[12] = 1
    /\ event_data[DOCUMENT_DOWNLOAD_URL(12)].target_year = "2024"

C9_Original == \A f \in FileIds : fetched[f] > 0 => emitted[f] > 0

\* C9, for records that hold the local payload reference: a download handed
\* to download_document while the limiter reports stop is discarded (no
\* payload written, no record); one handed to it before is emitted, and an
\* emitted record goes through the pipelines to an end whatever limit is
\* reached meanwhile.
C9_InFlightAfterStop ==
    /\ [][\A f \in FileIds : fetched'[f] # fetched[f] =>
              IF LimiterReportsStop
              THEN emitted' = emitted /\ files' = files /\ chain' = chain /\ closing' # ""
              ELSE emitted'[f] = emitted[f] + 1 /\ chain'.stage = 1]_vars
    /\ [](pc = "closed" => \A f \in FileIds : emitted[f] > 0 => outcome[f] # "none")

C9_Witness ==
    /\ upload_limit_attained
    /\ \E f \in FileIds : fetched[f] > 0 /\ emitted[f] = 0
    /\ \E f \in FileIds : outcome[f] = "processed"

AddedInRun == DOMAIN event_data \ DOMAIN ledger0

InTargetYears(q) == IntOfYear(q.publishedDate[1]) \in target_years

\* an identifier of the summary's list maps to a download URL the ledger lacks
HasNewAttachment(q) ==
    \E i \in DOMAIN q.publishedAttachmentIds :
        /\ q.publishedAttachmentIds[i] # ","
        /\ DOCUMENT_DOWNLOAD_URL(IntOfId(q.publishedAttachmentIds[i])) \notin DOMAIN event_data

\* parse_results has handled the listing response r and was not stopped at entry
ParsedListing(r) ==
    /\ r \in requests.parse_results
    /\ r \notin requests'.parse_results
    /\ closing = ""
    /\ ~LimiterReportsStop

\* C12: when parse_results goes through a listing, it yields the detail
\* request of a project summary if and only if the published year is a target
\* year and one of its attachment ids maps to a download URL that is not in
\* the ledger; an empty id list and a list wholly in the ledger yield none.
C12_ExpansionRule ==
    [][\A r \in requests.parse_results : ParsedListing(r) =>
          \A q \in Range(ListingResponse(r.target, r.page).data) :
             LET u == PROJECT_PAGE_API_URL(q.documentId)
             IN  IF InTargetYears(q) /\ HasNewAttachment(q)
                 THEN /\ u \in seen'
                      /\ u \notin seen =>
                            \E n \in requests'.parse_project_page :
                                n.url = u /\ n.document_id = q.documentId
                 ELSE /\ u \in seen' <=> u \in seen
                      /\ \A n \in requests'.parse_project_page \ requests.parse_project_page :
                            n.url # u
      ]_vars

\* C12 witness: every listing has been parsed; project 1 was expanded and
\* project 2, whose only attachment is in the ledger, was not
C12_Witness ==
    /\ pc = "crawling"
    /\ closing = ""
    /\ requests.parse_results = {}
    /\ RESULTS_LIST_API_URL(0, RESULTS_LENGTH, 2) \in seen
    /\ portal.attachmentIds2 # <<>>
    /\ portal.year2 = "2024"
    /\ DOCUMENT_DOWNLOAD_URL(13) \in DOMAIN ledger0
    /\ PROJECT_PAGE_API_URL(1) \in seen
    /\ PROJECT_PAGE_API_URL(2) \notin seen

\* the item has been returned by the pipeline of that name
After(name) == chain.stage # 0 /\ chain.stage = StageIndex(name) + 1

FatalConfigurationError ==
    \/ check_access_level
    \/ /\ ~cfg.dry_run
       /\ client.project_raises \/ client.users_get_raises \/ ~client.verified_journalist

\* C14 (as stated): on a fatal configuration error main aborts before the
\* crawl is launched, no listing is ever fetched, and the abort is notified
\* by mail.
C14_FatalConfigErrors ==
    FatalConfigurationError =>
        /\ pc \in {"main", "aborted"}
        /\ seen = {}
        /\ pc = "aborted" => Len(mails) > 0

\* the ledger event_data.json holds, and the one load_event_data returns
LedgerInFile == IF json_file.exists THEN json_file.data ELSE EmptyLedger
LedgerInStore == tracked

\* C15 (as stated): without a run id the ledger is read from event_data.json
\* when the spider opens and written to it when the spider closes; with a run
\* id it is loaded with load_event_data and stored with store_event_data.
C15_LedgerFallback ==
    /\ pc = "opened" =>
          event_data = IF cfg.run_id THEN LedgerInStore ELSE LedgerInFile
    /\ pc = "closed" =>
          IF cfg.run_id THEN LedgerInStore = event_data
          ELSE json_file = FileOf(event_data)

\* the records committed in this run, and the records in the report buffer
CommittedInRun == {f \in FileIds : DOCUMENT_DOWNLOAD_URL(f) \in AddedInRun}
Reported == {FileIdOf(mail_items[i]) : i \in DOMAIN mail_items}
Failures == {"ValueError", "DropItem", "IndexError", "SilentDropItem", "KeyError", "Upload error"}

FoldedExtension(item) == Lower(SplitExt(item.source_filename))

ItemProjects ==
    {CapitalizeFirst(BeautifyProject(ProjectTitle(ItemProjectResponse(t, CasParCas, <<>>)))) :
        t \in ItemProjectTitles}

\* the pairs (source_page_url, project name) of those records
ItemPairs == {<<PROJECT_PAGE_WEB_URL(d), p>> : d \in ItemDocumentIds, p \in ItemProjects}

AtGate == chain.stage # 0 /\ ITEM_PIPELINES[chain.stage] = "UploadLimitPipeline"
GateVetoes ==
    /\ AtGate
    /\ chain' = Idle
    /\ outcome' = [outcome EXCEPT ![FileIdOf(chain.item)] = "SilentDropItem"]

UploadAttempts ==
    hosted[11] + hosted[12] + hosted[13]
        + Cardinality({f \in FileIds : outcome[f] = "Upload error"})

\* the records that have reached the upload-limit gate
ReachedGate ==
    {f \in FileIds :
        \/ outcome[f] \in {"SilentDropItem", "KeyError", "Upload error", "processed"}
        \/ /\ chain.stage > StageIndex("UploadLimitPipeline")
           /\ FileIdOf(chain.item) = f}

C21_CompletedDownloadEmitted ==
    [][\A f \in FileIds : (fetched'[f] # fetched[f] /\ ~LimiterReportsStop) =>
          /\ emitted'[f] = emitted[f] + 1
          /\ chain'.stage = 1
          /\ "local_file_path" \in DOMAIN chain'.item
          /\ chain'.item.local_file_path \in files'
          /\ DOMAIN chain'.item \subseteq item_fields]_vars

\* C22: a record that leaves CategoryPipeline with category unset is handled
\* by UploadPipeline like any other: the step does not fail on the missing
\* category; unless the upload itself fails, the record is uploaded when the
\* run uploads, gets its ledger entry and goes on to the report.
Uncategorized == AtStage("UploadPipeline") /\ "category" \notin DOMAIN chain.item
====
